---- MODULE Spec2Model ----
(***************************************************************************)
(* Model of decaff's content cache (src/cache.rs) and of the reference     *)
(* resolver (src/repository.rs).                                           *)
(*                                                                         *)
(* Strings of the program are TLA+ strings; TLC evaluates Len, \o and      *)
(* SubSeq on them, so a character of a string s is SubSeq(s, i, i).        *)
(***************************************************************************)
EXTENDS Naturals, Sequences, FiniteSets, TLC

VARIABLES
  manifest,     \* Cache.manifest.templates: Entry -> sequence of Item
  disk,         \* templates of <root>/manifest.toml as last persisted
  blobs,        \* <root>/tarballs/<hash>.tar.gz: hash -> file contents
  tarballsDir,  \* whether <root>/tarballs exists
  clock,        \* Utc::now() in milliseconds
  last,         \* the last call on the cache: its arguments and outcome
  selector,     \* RemoteRepository.meta of the descriptor being resolved
  refs,         \* RemoteRepository.refs of the descriptor being resolved
  resolved,     \* outcome of RemoteRepository::resolve_hash
  target,       \* the string handed to RemoteRepository::from_str or ::new
  explicit,     \* the Option<String> meta handed to RemoteRepository::new
  descriptor,   \* outcome of RemoteRepository::from_str or ::new
  suites,       \* the suites handed to resolve_requirements
  requirements, \* outcome of resolve_requirements
  app           \* App::remote: where the flow has come to and the bytes it holds

vars ==
  <<manifest, disk, blobs, tarballsDir, clock, last, selector, refs, resolved,
    target, explicit, descriptor, suites, requirements, app>>

cacheVars == <<manifest, disk, blobs, tarballsDir, clock, last>>

resolveVars == <<selector, refs, resolved>>

parseVars == <<target, explicit, descriptor>>

suiteVars == <<suites, requirements>>

appVars == <<app>>

-----------------------------------------------------------------------------
(* Bounds of the model.                                                    *)

\* Number of Cache::write calls in one run over several repositories; a write
\* stamps its item with the clock, which advances with every write.
MaxWrites == 2

\* Number of Cache::write calls in one run over a single repository.
MaxBucketWrites == 3

\* Longest hash handed to the cache.
MaxHashLen == 2

\* Longest list of search terms handed to Cache::remove.
MaxNeedles == 2

\* Number of Cache::write calls in one run of the parser.
MaxParsedWrites == 1

-----------------------------------------------------------------------------
(* Strings.                                                                *)

CharAt(s, i) == SubSeq(s, i, i)

\* str::starts_with
starts_with(s, prefix) ==
  /\ Len(prefix) <= Len(s)
  /\ SubSeq(s, 1, Len(prefix)) = prefix

\* All strings over the characters of `alphabet` of length exactly n.
RECURSIVE StringsOfLen(_, _)
StringsOfLen(alphabet, n) ==
  IF n = 0 THEN {""}
  ELSE {s \o c : s \in StringsOfLen(alphabet, n - 1), c \in alphabet}

StringsUpTo(alphabet, n) == UNION {StringsOfLen(alphabet, k) : k \in 1..n}

Digits == "0123456789"

UpperCase == "ABCDEFGHIJKLMNOPQRSTUVWXYZ"

LowerCase == "abcdefghijklmnopqrstuvwxyz"

\* Whether the one-character string c occurs in the string s.
InStr(c, s) == \E i \in 1..Len(s) : CharAt(s, i) = c

IndexIn(c, s) == CHOOSE i \in 1..Len(s) : CharAt(s, i) = c

\* The byte of a one-character ASCII string (str::as_bytes).
ByteOf(c) ==
  CASE InStr(c, Digits) -> 47 + IndexIn(c, Digits)
    [] InStr(c, UpperCase) -> 64 + IndexIn(c, UpperCase)
    [] InStr(c, LowerCase) -> 96 + IndexIn(c, LowerCase)
    [] c = " " -> 32
    [] c = "#" -> 35
    [] c = "-" -> 45
    [] c = "." -> 46
    [] c = "/" -> 47
    [] c = ":" -> 58
    [] c = "@" -> 64
    [] c = "_" -> 95

\* The eight bits of a byte, most significant first.
ByteBits(b) ==
  << (b \div 128) % 2, (b \div 64) % 2, (b \div 32) % 2, (b \div 16) % 2,
     (b \div 8) % 2, (b \div 4) % 2, (b \div 2) % 2, b % 2 >>

RECURSIVE StrBits(_)
StrBits(s) ==
  IF Len(s) = 0 THEN <<>>
  ELSE ByteBits(ByteOf(CharAt(s, 1))) \o StrBits(SubSeq(s, 2, Len(s)))

\* Alphabet::RFC4648 { padding: false }
BASE32_ALPHABET == "ABCDEFGHIJKLMNOPQRSTUVWXYZ234567"

RECURSIVE QuintetsToStr(_)
QuintetsToStr(bits) ==
  IF Len(bits) = 0 THEN ""
  ELSE LET v == 16 * bits[1] + 8 * bits[2] + 4 * bits[3] + 2 * bits[4] + bits[5]
       IN  CharAt(BASE32_ALPHABET, v + 1) \o QuintetsToStr(SubSeq(bits, 6, Len(bits)))

\* base32::encode(BASE32_ALPHABET, s.as_bytes()): the bits of the bytes, cut
\* into groups of five, the last group filled with zero bits, no padding.
base32_encode(s) ==
  LET bits == StrBits(s)
      fill == (5 - (Len(bits) % 5)) % 5
  IN  QuintetsToStr(bits \o [i \in 1..fill |-> 0])

-----------------------------------------------------------------------------
(* The values the model's calls are made with.                             *)

\* Repository identities, as RemoteRepository::get_source produces them.
Identities == {"github:u/r", "gitlab:u/r"}

OneIdentity == {"github:u/r"}

HashAlphabet == {"a", "b"}

Hashes == StringsUpTo(HashAlphabet, MaxHashLen)

\* Ref names; a ref may be named like a hash.
Names == {"main", "a"}

OneName == {"main"}

\* Tarball contents.
Contents == {"x", "y"}

OneContents == {"x"}

\* Search terms of Cache::remove.
Needles == Identities \cup Names \cup Hashes

BucketNeedles == OneIdentity \cup OneName \cup Hashes

\* The lists of at most MaxNeedles search terms.
ListsOf(terms) == UNION {[1..n -> terms] : n \in 0..MaxNeedles}

NeedleLists == ListsOf(Needles)

BucketNeedleLists == ListsOf(BucketNeedles)

\* base32::encode(BASE32_ALPHABET, s.as_bytes()) of the search terms, computed
\* once.
EntryOf == [s \in Needles |-> base32_encode(s)]

encode(s) == IF s \in DOMAIN EntryOf THEN EntryOf[s] ELSE base32_encode(s)

-----------------------------------------------------------------------------
(* Manifest (src/cache.rs).                                                *)

\* HashMap::new() / Manifest::default(): no bucket.
EmptyMap == [e \in {} |-> <<>>]

\* HashMap::insert: the value of an existing key is replaced.
MapInsert(m, k, v) == [x \in DOMAIN m \cup {k} |-> IF x = k THEN v ELSE m[x]]

\* Option: None is the empty sequence, Some(v) the sequence of v alone.
None == <<>>

Some(v) == <<v>>

\* struct Item
Item(name, hash, timestamp) == [name |-> name, hash |-> hash, timestamp |-> timestamp]

\* Vec::contains / Iterator::any
Contains(items, item) == \E i \in 1..Len(items) : items[i] = item

\* Cache::compare_hashes that takes only equal hashes to match.
compare_hashes_exact(left, right) == left = right

\* Cache::compare_hashes
compare_hashes(left, right) ==
  IF Len(left) < Len(right) THEN starts_with(right, left)
  ELSE IF Len(left) > Len(right) THEN starts_with(left, right)
  ELSE left = right

\* Manifest::normalize that retains every bucket.
normalize_keep(templates) == templates

\* Manifest::normalize
normalize(templates) ==
  [e \in {k \in DOMAIN templates : templates[k] # <<>>} |-> templates[e]]

\* Manifest::clear_entries
clear_entries(templates) == EmptyMap

\* Manifest::select_entries that matches a needle with the hashes only.
select_term_by_hash(templates, selection, term) ==
  LET entry == encode(term)
      droppable(e) ==
        SelectSeq(templates[e], LAMBDA item : compare_hashes(item.hash, term))
      hit == {e \in DOMAIN templates : droppable(e) # <<>>}
  IN  IF entry \in DOMAIN templates
      THEN MapInsert(selection, entry, templates[entry])
      ELSE [e \in DOMAIN selection \cup hit |->
              IF e \in hit THEN droppable(e) ELSE selection[e]]

\* The body of the loop of Manifest::select_entries, for one search term.
select_term(templates, selection, term) ==
  LET entry == encode(term)
      droppable(e) ==
        SelectSeq(templates[e],
                  LAMBDA item : item.name = term \/ compare_hashes(item.hash, term))
      hit == {e \in DOMAIN templates : droppable(e) # <<>>}
  IN  IF entry \in DOMAIN templates
      THEN MapInsert(selection, entry, templates[entry])
      ELSE [e \in DOMAIN selection \cup hit |->
              IF e \in hit THEN droppable(e) ELSE selection[e]]

\* Manifest::select_entries
RECURSIVE select_from(_, _, _)
select_from(templates, selection, search) ==
  IF search = <<>> THEN selection
  ELSE select_from(templates, select_term(templates, selection, Head(search)),
                   Tail(search))

select_entries(templates, search) == select_from(templates, EmptyMap, search)

\* Manifest::remove_entries
remove_entries(templates, selection) ==
  [e \in DOMAIN templates |->
     IF e \in DOMAIN selection
     THEN SelectSeq(templates[e], LAMBDA item : ~Contains(selection[e], item))
     ELSE templates[e]]

\* Cache::write that pushes the item unless a stored hash equals the new one.
upsert_exact(templates, entry, name, hash, timestamp) ==
  IF entry \in DOMAIN templates
  THEN IF \E i \in 1..Len(templates[entry]) : hash = templates[entry][i].hash
       THEN templates
       ELSE [templates EXCEPT ![entry] = Append(@, Item(name, hash, timestamp))]
  ELSE MapInsert(templates, entry, <<Item(name, hash, timestamp)>>)

\* The templates after the entry().and_modify().or_insert_with() of
\* Cache::write.
upsert(templates, entry, name, hash, timestamp) ==
  IF entry \in DOMAIN templates
  THEN IF \E i \in 1..Len(templates[entry]) :
            compare_hashes(hash, templates[entry][i].hash)
       THEN templates
       ELSE [templates EXCEPT ![entry] = Append(@, Item(name, hash, timestamp))]
  ELSE MapInsert(templates, entry, <<Item(name, hash, timestamp)>>)

\* Cache::read that takes a missing tarball for a miss.
read_silent_miss(templates, files, source, hash) ==
  LET entry == encode(source)
      items == IF entry \in DOMAIN templates THEN templates[entry] ELSE <<>>
      found == {i \in 1..Len(items) : compare_hashes(hash, items[i].hash)}
      first == CHOOSE i \in found : \A j \in found : i <= j
  IN  IF found = {} \/ items[first].hash \notin DOMAIN files
      THEN [result |-> "ok", value |-> None]
      ELSE [result |-> "ok", value |-> Some(files[items[first].hash])]

\* Cache::read on the given manifest and blob files: the value of the
\* miette::Result<Option<Vec<u8>>>.
read(templates, files, source, hash) ==
  LET entry == encode(source)
      items == IF entry \in DOMAIN templates THEN templates[entry] ELSE <<>>
      found == {i \in 1..Len(items) : compare_hashes(hash, items[i].hash)}
      first == CHOOSE i \in found : \A j \in found : i <= j
  IN  IF found = {} THEN [result |-> "ok", value |-> None]
      ELSE IF items[first].hash \in DOMAIN files
           THEN [result |-> "ok", value |-> Some(files[items[first].hash])]
           ELSE [result |-> "err", value |-> None]

\* itertools sorted_by(|a, b| b.timestamp.cmp(&a.timestamp)): a stable sort,
\* latest first.
RECURSIVE sorted_by_timestamp(_)
sorted_by_timestamp(items) ==
  IF items = <<>> THEN <<>>
  ELSE LET rest  == sorted_by_timestamp(Tail(items))
           x     == Head(items)
           ahead == SelectSeq(rest, LAMBDA y : y.timestamp > x.timestamp)
           after == SelectSeq(rest, LAMBDA y : y.timestamp <= x.timestamp)
       IN  ahead \o <<x>> \o after

\* The orders in which a HashMap with the keys S may be iterated.
Orders(S) ==
  {o \in [1..Cardinality(S) -> S] : \A i, j \in 1..Cardinality(S) : o[i] = o[j] => i = j}

\* The items of a selection, each with its entry, in the order the loops of
\* Cache::remove visit them.
RECURSIVE worklist(_, _)
worklist(selection, order) ==
  IF order = <<>> THEN <<>>
  ELSE LET entry == Head(order)
           items == sorted_by_timestamp(selection[entry])
       IN  [i \in 1..Len(items) |-> [entry |-> entry, item |-> items[i]]]
             \o worklist(selection, Tail(order))

\* The loop of Cache::remove that stops at the first file it cannot remove.
RECURSIVE remove_files_abort(_, _, _)
remove_files_abort(files, work, denied) ==
  IF work = <<>> THEN [files |-> files, printed |-> <<>>]
  ELSE LET h    == Head(work).item.hash
           ok   == h \in DOMAIN files /\ h \notin denied
           left == IF ok THEN [x \in DOMAIN files \ {h} |-> files[x]] ELSE files
           rest == IF ok THEN remove_files_abort(left, Tail(work), denied)
                   ELSE [files |-> left, printed |-> <<>>]
       IN  [files |-> rest.files,
            printed |-> <<[entry |-> Head(work).entry, item |-> Head(work).item,
                           removed |-> ok]>> \o rest.printed]

\* fs::remove_file over the worklist: the blob files left, and the worklist
\* with the outcome of each removal. The files in `denied` cannot be removed.
RECURSIVE remove_files(_, _, _)
remove_files(files, work, denied) ==
  IF work = <<>> THEN [files |-> files, printed |-> <<>>]
  ELSE LET h    == Head(work).item.hash
           ok   == h \in DOMAIN files /\ h \notin denied
           left == IF ok THEN [x \in DOMAIN files \ {h} |-> files[x]] ELSE files
           rest == remove_files(left, Tail(work), denied)
       IN  [files |-> rest.files,
            printed |-> <<[entry |-> Head(work).entry, item |-> Head(work).item,
                           removed |-> ok]>> \o rest.printed]

-----------------------------------------------------------------------------
(* Reference resolution (src/repository.rs).                               *)

\* A string of n characters c.
RECURSIVE Repeat(_, _)
Repeat(c, n) == IF n = 0 THEN "" ELSE c \o Repeat(c, n - 1)

\* The characters of s that are at or after position i (&s[i - 1..]).
From(s, i) == SubSeq(s, i, Len(s))

\* char::to_ascii_lowercase
LowerChar(c) ==
  IF InStr(c, UpperCase) THEN CharAt(LowerCase, IndexIn(c, UpperCase)) ELSE c

\* str::to_ascii_lowercase
RECURSIVE to_ascii_lowercase(_)
to_ascii_lowercase(s) ==
  IF Len(s) = 0 THEN "" ELSE LowerChar(CharAt(s, 1)) \o to_ascii_lowercase(From(s, 2))

HexDigits == "0123456789abcdefABCDEF"

\* Length of an object id in hexadecimal digits (libgit2's GIT_OID_HEXSZ).
GIT_OID_HEXSZ == 40

\* Shortest selector taken for a commit hash.
MinHashLen == 7

\* Whether git2::Oid::from_str accepts s: one to GIT_OID_HEXSZ hexadecimal
\* digits.
oid_valid(s) ==
  /\ Len(s) >= 1
  /\ Len(s) <= GIT_OID_HEXSZ
  /\ \A i \in 1..Len(s) : InStr(CharAt(s, i), HexDigits)

\* git2::Oid::from_str(s).to_string(): the object id is GIT_OID_HEXSZ digits
\* wide, the digits s leaves out are zero, and it prints in lower case.
oid_to_string(s) == to_ascii_lowercase(s) \o Repeat("0", GIT_OID_HEXSZ - Len(s))

\* Result<String, ReferenceError>
Ok(v) == [result |-> "ok", value |-> v]

InvalidSelector(v) == [result |-> "InvalidSelector", value |-> v]

\* No resolve_hash has been called on the descriptor yet.
Pending == [result |-> "pending", value |-> ""]

\* The values of a HashMap.
Values(m) == {m[k] : k \in DOMAIN m}

\* RemoteRepository::resolve_hash that takes any selector of MinHashLen
\* characters or more for a commit hash.
resolve_hash_any_long(meta, refmap) ==
  IF meta \in DOMAIN refmap THEN Ok(refmap[meta])
  ELSE IF Len(meta) >= MinHashLen THEN Ok(meta)
  ELSE InvalidSelector(meta)

\* RemoteRepository::resolve_hash that tries the commit hash before the refs.
resolve_hash_as_hash_first(meta, refmap) ==
  IF Len(meta) >= MinHashLen /\ oid_valid(meta)
  THEN LET oid == oid_to_string(meta)
           tips == {hash \in Values(refmap) : starts_with(hash, oid)}
       IN  IF tips # {} THEN Ok(CHOOSE hash \in tips : TRUE) ELSE Ok(meta)
  ELSE IF meta \in DOMAIN refmap THEN Ok(refmap[meta])
  ELSE InvalidSelector(meta)

\* RemoteRepository::resolve_hash
resolve_hash(meta, refmap) ==
  IF meta \in DOMAIN refmap THEN Ok(refmap[meta])
  ELSE IF Len(meta) >= MinHashLen
  THEN IF oid_valid(meta)
       THEN LET oid == oid_to_string(meta)
                tips == {hash \in Values(refmap) : starts_with(hash, oid)}
            IN  IF tips # {} THEN Ok(CHOOSE hash \in tips : TRUE) ELSE Ok(meta)
       ELSE InvalidSelector(meta)
  ELSE InvalidSelector(meta)

\* The name RemoteRepository::fetch_refs files a remote head under, None for
\* a head it skips.
ref_name(original) ==
  IF original = "HEAD" THEN Some("HEAD")
  ELSE IF starts_with(original, "refs/heads/") THEN Some(From(original, 12))
  ELSE IF starts_with(original, "refs/tags/") THEN Some(From(original, 11))
  ELSE None

\* The loop of RemoteRepository::fetch_refs over the heads the remote lists.
RECURSIVE insert_heads(_, _)
insert_heads(refmap, heads) ==
  IF heads = <<>> THEN refmap
  ELSE LET name == ref_name(Head(heads).name)
       IN  insert_heads(IF name = None THEN refmap
                        ELSE MapInsert(refmap, name[1], Head(heads).oid),
                        Tail(heads))

-----------------------------------------------------------------------------
(* Cache (src/cache.rs).                                                   *)

\* The record kept of the last call: the arguments of a Cache::write, the
\* result of the call, the Option it returned and the lines it printed.
Call(op, source, name, hash, contents, result, value, printed) ==
  [op |-> op, source |-> source, name |-> name, hash |-> hash,
   contents |-> contents, result |-> result, value |-> value, printed |-> printed]

\* No string has been parsed into a descriptor.
NoDescriptor ==
  /\ target = ""
  /\ explicit = None
  /\ descriptor = Pending

\* No suites have been handed to resolve_requirements.
NoSuites ==
  /\ suites = <<>>
  /\ requirements = Pending

\* App::remote has not been entered.
NoRemote == app = [pc |-> "idle", tarball |-> None, unpacked |-> None]

\* Cache::init on a machine with no cache directory.
Init ==
  /\ manifest = EmptyMap
  /\ disk = EmptyMap
  /\ blobs = EmptyMap
  /\ tarballsDir = FALSE
  /\ clock = 0
  /\ last = Call("init", "", "", "", "", "ok", None, <<>>)
  /\ selector = ""
  /\ refs = EmptyMap
  /\ resolved = Pending
  /\ NoDescriptor
  /\ NoSuites
  /\ NoRemote

\* Cache::write. `fault` names the file-system call that fails, if any.
Write(source, name, hash, contents, fault) ==
  LET entry     == encode(source)
      timestamp == clock
      templates == normalize(upsert(manifest, entry, name, hash, timestamp))
      result    == IF fault = "none" THEN "ok" ELSE "err"
  IN  /\ clock' = clock + 1
      /\ manifest' = templates
      /\ disk' = IF fault = "manifest" THEN disk ELSE templates
      /\ tarballsDir' = IF fault \in {"manifest", "tarballs"} THEN tarballsDir ELSE TRUE
      /\ blobs' = IF fault = "none" THEN MapInsert(blobs, hash, contents) ELSE blobs
      /\ last' = Call("write", source, name, hash, contents, result, None, <<>>)
      /\ UNCHANGED <<resolveVars, parseVars, suiteVars, appVars>>

\* Cache::read
Read(source, hash) ==
  LET r == read(manifest, blobs, source, hash)
  IN  /\ last' = Call("read", "", "", "", "", r.result, r.value, <<>>)
      /\ UNCHANGED <<manifest, disk, blobs, tarballsDir, clock>>
      /\ UNCHANGED <<resolveVars, parseVars, suiteVars, appVars>>

\* Cache::remove. `order` is the iteration order of the selection, `denied`
\* the blob files the file system refuses to remove, `fault` the failing
\* file-system call of Manifest::write, if any. Every entry of a run is the
\* encoding of an identity RemoteRepository::from_str accepts, so that the
\* loop is never left through the `?` of parse_repository.
Remove(needles, order, denied, fault) ==
  LET selection == select_entries(manifest, needles)
      done      == remove_files(blobs, worklist(selection, order), denied)
      templates == normalize(remove_entries(manifest, selection))
  IN  /\ order \in Orders(DOMAIN selection)
      /\ manifest' = templates
      /\ disk' = IF fault = "manifest" THEN disk ELSE templates
      /\ blobs' = done.files
      /\ last' = Call("remove", "", "", "", "",
                      IF fault = "none" THEN "ok" ELSE "err", None, done.printed)
      /\ UNCHANGED <<tarballsDir, clock>>
      /\ UNCHANGED <<resolveVars, parseVars, suiteVars, appVars>>

\* Cache::remove_all that clears and persists the manifest before it deletes
\* the tarballs directory.
RemoveAllManifestFirst(fault) ==
  LET deleted == tarballsDir /\ fault = "none"
  IN  /\ manifest' = normalize(clear_entries(manifest))
      /\ disk' = IF fault = "manifest" THEN disk ELSE normalize(clear_entries(manifest))
      /\ tarballsDir' = IF deleted THEN FALSE ELSE tarballsDir
      /\ blobs' = IF deleted THEN EmptyMap ELSE blobs
      /\ last' = Call("remove_all", "", "", "", "",
                      IF deleted THEN "ok" ELSE "err", None, <<>>)
      /\ UNCHANGED clock
      /\ UNCHANGED <<resolveVars, parseVars, suiteVars, appVars>>

\* Cache::remove_all
RemoveAll(fault) ==
  /\ IF ~tarballsDir \/ fault = "tarballs"
     THEN /\ last' = Call("remove_all", "", "", "", "", "err", None, <<>>)
          /\ UNCHANGED <<manifest, disk, blobs, tarballsDir>>
     ELSE /\ tarballsDir' = FALSE
          /\ blobs' = EmptyMap
          /\ manifest' = normalize(clear_entries(manifest))
          /\ disk' = IF fault = "manifest" THEN disk
                     ELSE normalize(clear_entries(manifest))
          /\ last' = Call("remove_all", "", "", "", "",
                          IF fault = "none" THEN "ok" ELSE "err", None, <<>>)
  /\ UNCHANGED clock
  /\ UNCHANGED <<resolveVars, parseVars, suiteVars, appVars>>

-----------------------------------------------------------------------------
(* Runs of the cache over two repositories, the file system never failing  *)
(* of its own.                                                             *)

WriteOk ==
  /\ clock < MaxWrites
  /\ \E source \in Identities, name \in Names, hash \in Hashes, contents \in OneContents :
       Write(source, name, hash, contents, "none")

ReadAny == \E source \in Identities, hash \in Hashes : Read(source, hash)

RemoveOk ==
  \E needles \in NeedleLists :
    \E order \in Orders(DOMAIN select_entries(manifest, needles)) :
      Remove(needles, order, {}, "none")

RemoveAllOk == RemoveAll("none")

Next == WriteOk \/ ReadAny \/ RemoveOk \/ RemoveAllOk

Spec == Init /\ [][Next]_vars

-----------------------------------------------------------------------------
(* Runs of the cache over one repository.                                  *)

BucketWrite ==
  /\ clock < MaxBucketWrites
  /\ \E source \in OneIdentity, name \in OneName, hash \in Hashes, contents \in Contents :
       Write(source, name, hash, contents, "none")

BucketRead == \E source \in OneIdentity, hash \in Hashes : Read(source, hash)

BucketRemove ==
  \E needles \in BucketNeedleLists :
    \E order \in Orders(DOMAIN select_entries(manifest, needles)) :
      Remove(needles, order, {}, "none")

BucketRemoveAll == RemoveAll("none")

NextBucket == BucketWrite \/ BucketRead \/ BucketRemove \/ BucketRemoveAll

SpecBucket == Init /\ [][NextBucket]_vars

-----------------------------------------------------------------------------
(* Runs of the cache over one repository in which calls of the file system *)
(* may fail.                                                               *)

\* The file-system calls of Cache::write that may fail: fs::create_dir_all
\* or fs::write in Manifest::write ("manifest"), fs::create_dir_all of the
\* tarballs directory ("tarballs"), fs::write of the tarball ("blob").
WriteFaults == {"none", "manifest", "tarballs", "blob"}

\* The hashes of the items a selection holds.
SelectedHashes(selection) ==
  UNION {{selection[e][i].hash : i \in 1..Len(selection[e])} : e \in DOMAIN selection}

FaultyWrite ==
  /\ clock < MaxWrites
  /\ \E source \in OneIdentity, name \in OneName, hash \in Hashes,
        contents \in OneContents, fault \in WriteFaults :
       Write(source, name, hash, contents, fault)

FaultyRead == \E source \in OneIdentity, hash \in Hashes : Read(source, hash)

FaultyRemove ==
  \E needles \in BucketNeedleLists :
    LET selection == select_entries(manifest, needles)
    IN  \E order \in Orders(DOMAIN selection), denied \in SUBSET SelectedHashes(selection),
           fault \in {"none", "manifest"} :
          Remove(needles, order, denied, fault)

FaultyRemoveAll == \E fault \in {"none", "tarballs", "manifest"} : RemoveAll(fault)

NextFaults == FaultyWrite \/ FaultyRead \/ FaultyRemove \/ FaultyRemoveAll

SpecFaults == Init /\ [][NextFaults]_vars

-----------------------------------------------------------------------------
(* Properties of the cache.                                                *)

\* The items of a manifest, each with its entry.
ItemsOf(templates) ==
  UNION {{[entry |-> e, item |-> templates[e][i]] : i \in 1..Len(templates[e])} :
           e \in DOMAIN templates}

\* The items of the bucket of `source` whose hash hash-compares to `hash`.
Matching(templates, source, hash) ==
  {x \in ItemsOf(templates) : x.entry = encode(source) /\ compare_hashes(hash, x.item.hash)}

\* The non-empty proper prefixes of a string.
ProperPrefixes(s) == {SubSeq(s, 1, n) : n \in 1..(Len(s) - 1)}

\* The step is a successful Cache::write that repeats the successful call
\* before it.
SecondWrite ==
  /\ last.op = "write" /\ last.result = "ok"
  /\ last' = last
  /\ clock' = clock + 1

\* C1: after Cache::write is called twice with the same (identity, name, hash,
\* bytes), whatever the manifest before, the bucket of the identity holds
\* exactly one item for that hash and read(identity, hash) returns Some(bytes).
C1_WriteTwice ==
  [][SecondWrite =>
       /\ Cardinality(Matching(manifest', last'.source, last'.hash)) = 1
       /\ read(manifest', blobs', last'.source, last'.hash)
            = [result |-> "ok", value |-> Some(last'.contents)]]_vars

\* No two items of one bucket have hashes that hash-compare.
Deduplicated(templates) ==
  \A e \in DOMAIN templates :
    \A i, j \in 1..Len(templates[e]) :
      compare_hashes(templates[e][i].hash, templates[e][j].hash) => i = j

\* C2: after any sequence of Cache::write, Cache::remove and Cache::remove_all
\* from an empty manifest, no bucket holds two distinct items of which one hash
\* is a prefix of, or equal to, the other.
C2_Deduplicated == Deduplicated(manifest) /\ Deduplicated(disk)

\* A write of a hash found a different, hash-comparing hash in the bucket and
\* added no item.
C2_Witness ==
  /\ last.op = "write" /\ last.result = "ok"
  /\ encode(last.source) \in DOMAIN manifest
  /\ \E i \in 1..Len(manifest[encode(last.source)]) :
       LET h == manifest[encode(last.source)][i].hash
       IN  h # last.hash /\ compare_hashes(h, last.hash)

\* The last call is a successful write into a bucket that was empty: the
\* bucket holds the item the call made and no other.
WroteIntoEmptyBucket ==
  /\ last.op = "write" /\ last.result = "ok"
  /\ encode(last.source) \in DOMAIN manifest
  /\ manifest[encode(last.source)] = <<Item(last.name, last.hash, clock - 1)>>

\* C3: after a successful write(identity, name, h, bytes) into an empty bucket,
\* read(identity, p) returns Some(bytes) for every non-empty proper prefix p of
\* h, as read(identity, h) does.
C3_PartialHashRead ==
  WroteIntoEmptyBucket =>
    \A p \in ProperPrefixes(last.hash) \cup {last.hash} :
      read(manifest, blobs, last.source, p)
        = [result |-> "ok", value |-> Some(last.contents)]

\* A full hash was written into an empty bucket.
C3_Witness == WroteIntoEmptyBucket /\ Len(last.hash) = MaxHashLen

\* C6: after every successful Cache::write, Cache::remove or Cache::remove_all
\* the manifest, in memory and as persisted, has no bucket with an empty list
\* of items.
C6_NoEmptyBuckets ==
  (last.op \in {"write", "remove", "remove_all"} /\ last.result = "ok") =>
    /\ \A e \in DOMAIN manifest : manifest[e] # <<>>
    /\ \A e \in DOMAIN disk : disk[e] # <<>>

\* A remove took the last item of a bucket, which is gone, while another
\* bucket remains.
C6_Witness ==
  /\ last.op = "remove" /\ last.result = "ok"
  /\ \E i \in 1..Len(last.printed) : last.printed[i].entry \notin DOMAIN manifest
  /\ manifest # EmptyMap

\* The items a search term matches on its own: the bucket of the term if the
\* term is a stored identity, else the items of any bucket with the term for
\* name or with a hash that hash-compares to the term.
TermMatches(templates, term) ==
  IF encode(term) \in DOMAIN templates
  THEN {x \in ItemsOf(templates) : x.entry = encode(term)}
  ELSE {x \in ItemsOf(templates) :
          x.item.name = term \/ compare_hashes(x.item.hash, term)}

\* The manifest without the items of `gone`, and without the buckets this
\* leaves empty.
Without(templates, gone) ==
  LET kept(e) == SelectSeq(templates[e], LAMBDA item : [entry |-> e, item |-> item] \notin gone)
  IN  [e \in {k \in DOMAIN templates : kept(k) # <<>>} |-> kept(e)]

\* The step is a Cache::remove with the given search terms in which no call of
\* the file system fails of its own.
RemoveStep(needles) ==
  /\ last'.op = "remove"
  /\ \E order \in Orders(DOMAIN select_entries(manifest, needles)) :
       Remove(needles, order, {}, "none")

\* C4: the items Cache::remove takes from the manifest are the union, over the
\* search terms, of the items each term matches on its own.
C4_RemovalUnion ==
  [][\A needles \in NeedleLists :
       RemoveStep(needles) =>
         ItemsOf(manifest) \ ItemsOf(manifest')
           = UNION {TermMatches(manifest, needles[i]) : i \in 1..Len(needles)}]_vars

\* C5: Cache::remove with a single term takes from the manifest the items the
\* term matches (the whole bucket of a stored identity, else the items of any
\* bucket matching by name or hash) and leaves every other item as it was.
C5_RemovalScoping ==
  [][\A term \in Needles :
       RemoveStep(<<term>>) =>
         manifest' = Without(manifest, TermMatches(manifest, term))]_vars

\* A remove took an item from the manifest and left another.
C5_Witness ==
  /\ last.op = "remove" /\ last.result = "ok"
  /\ last.printed # <<>>
  /\ manifest # EmptyMap

\* The first item of the bucket of `source`, in the order of the bucket, whose
\* hash hash-compares to `hash`; Matching(...) is not empty.
FirstMatching(templates, source, hash) ==
  LET items == templates[encode(source)]
      i == CHOOSE k \in 1..Len(items) :
             /\ compare_hashes(hash, items[k].hash)
             /\ \A j \in 1..(k - 1) : ~compare_hashes(hash, items[j].hash)
  IN  items[i]

\* The step is a Cache::read with the given arguments.
ReadStep(source, hash) == last'.op = "read" /\ Read(source, hash)

\* C7, as claimed: Cache::read returns an I/O error when the bucket holds an
\* item whose hash hash-compares to the requested hash and whose blob file is
\* absent, and None exactly when no item of the bucket hash-compares to it.
C7_MissingBlobIsError ==
  [][\A source \in OneIdentity, hash \in Hashes :
       ReadStep(source, hash) =>
         LET found == Matching(manifest, source, hash)
         IN  /\ (\E x \in found : x.item.hash \notin DOMAIN blobs) => last'.result = "err"
             /\ (last'.result = "ok" /\ last'.value = None) <=> found = {}]_vars

\* C7, amended: Cache::read returns an I/O error exactly when the first item of
\* the bucket whose hash hash-compares to the requested hash has no blob file,
\* the bytes of that item's blob when it has one, and None exactly when no item
\* of the bucket hash-compares to the requested hash.
C7_FirstMissingBlobIsError ==
  [][\A source \in OneIdentity, hash \in Hashes :
       ReadStep(source, hash) =>
         LET found == Matching(manifest, source, hash)
             first == FirstMatching(manifest, source, hash).hash
         IN  /\ (last'.result = "ok" /\ last'.value = None) <=> found = {}
             /\ found # {} =>
                  IF first \in DOMAIN blobs
                  THEN last'.result = "ok" /\ last'.value = Some(blobs[first])
                  ELSE last'.result = "err"]_vars

\* A read failed on an item of the manifest that has no blob file.
C7_Witness ==
  /\ last.op = "read" /\ last.result = "err"
  /\ \E x \in ItemsOf(manifest) : x.item.hash \notin DOMAIN blobs

\* C8: in a Cache::remove where the blob of a matched item cannot be deleted,
\* the deletion of every matched item is attempted all the same, every matched
\* item leaves the manifest, and the manifest is persisted.
C8_RemoveGoesOn ==
  [][(last'.op = "remove" /\ \E i \in 1..Len(last'.printed) : ~last'.printed[i].removed) =>
       LET printed == last'.printed
           visited == {[entry |-> printed[i].entry, item |-> printed[i].item] :
                         i \in 1..Len(printed)}
       IN  /\ visited = ItemsOf(manifest) \ ItemsOf(manifest')
           /\ \A i \in 1..Len(printed) :
                printed[i].removed => printed[i].item.hash \notin DOMAIN blobs'
           /\ last'.result = "ok" => disk' = manifest']_vars

\* A remove could not delete the blob of one item and deleted the blob of the
\* item it visited next.
C8_Witness ==
  /\ last.op = "remove" /\ last.result = "ok"
  /\ \E i, j \in 1..Len(last.printed) :
       i < j /\ ~last.printed[i].removed /\ last.printed[j].removed

-----------------------------------------------------------------------------
(* Resolution of the selector of a remote repository.                      *)

\* Commits of the remote: two that share their first seven digits, one of
\* them ending in zeros, and two others.
Commit1 == "abcdef1" \o Repeat("2", 33)

Commit2 == "abcdef1" \o Repeat("0", 33)

Commit3 == "deadbeef" \o Repeat("3", 32)

Commit4 == "1234567" \o Repeat("4", 33)

\* What the remote lists, in its order: HEAD, branches (one named like a
\* commit hash), a tag named like a branch, and a head that is neither.
AllHeads ==
  << [name |-> "HEAD", oid |-> Commit1],
     [name |-> "refs/heads/main", oid |-> Commit1],
     [name |-> "refs/heads/deadbeef", oid |-> Commit2],
     [name |-> "refs/heads/cafe", oid |-> Commit3],
     [name |-> "refs/tags/main", oid |-> Commit3],
     [name |-> "refs/pull/1/head", oid |-> Commit4] >>

\* The heads of AllHeads at the positions of `keep`, in the order of AllHeads.
RECURSIVE Sublist(_, _)
Sublist(keep, i) ==
  IF i > Len(AllHeads) THEN <<>>
  ELSE (IF i \in keep THEN <<AllHeads[i]>> ELSE <<>>) \o Sublist(keep, i + 1)

Listings == {Sublist(keep, 1) : keep \in SUBSET (1..Len(AllHeads))}

\* Selectors: ref names (two of them hexadecimal), full hashes, short hashes
\* of tips and of other commits, in either case, and strings that are neither.
Selectors ==
  { "HEAD", "main", "deadbeef", "cafe", "v1.0.0", "feature",
    Commit1, Commit2, Commit4, "ABCDEF1" \o Repeat("2", 33),
    "abcdef1", "abcdef12", "abcdef10", "ABCDEF1", "deadbeef3", "1234567",
    "abcdef", "abcdefg1", Commit1 \o "2" }

\* RemoteRepository::new: a descriptor with the given selector and no refs.
New(meta) ==
  /\ selector' = meta
  /\ refs' = EmptyMap
  /\ resolved' = Pending
  /\ UNCHANGED <<cacheVars, parseVars, suiteVars, appVars>>

\* RemoteRepository::fetch_refs, the remote listing `heads`.
FetchRefs(heads) ==
  /\ refs' = insert_heads(refs, heads)
  /\ resolved' = Pending
  /\ UNCHANGED <<selector, cacheVars, parseVars, suiteVars, appVars>>

\* RemoteRepository::resolve_hash
ResolveHash ==
  /\ resolved' = resolve_hash(selector, refs)
  /\ UNCHANGED <<selector, refs, cacheVars, parseVars, suiteVars, appVars>>

NewAny == \E meta \in Selectors : New(meta)

FetchRefsAny == \E heads \in Listings : FetchRefs(heads)

InitResolve ==
  /\ manifest = EmptyMap
  /\ disk = EmptyMap
  /\ blobs = EmptyMap
  /\ tarballsDir = FALSE
  /\ clock = 0
  /\ last = Call("init", "", "", "", "", "ok", None, <<>>)
  /\ selector \in Selectors
  /\ refs = EmptyMap
  /\ resolved = Pending
  /\ NoDescriptor
  /\ NoSuites
  /\ NoRemote

NextResolve == NewAny \/ FetchRefsAny \/ ResolveHash

SpecResolve == InitResolve /\ [][NextResolve]_vars

\* C9: whenever the selector is a key of the ref map, resolve_hash returns the
\* value of that key, whatever the length of the selector and also when the
\* selector is a valid hexadecimal string.
C9_ExactMatch ==
  (resolved # Pending /\ selector \in DOMAIN refs) => resolved = Ok(refs[selector])

\* A selector that is a ref name and a hexadecimal string of at least seven
\* digits was resolved.
C9_Witness ==
  /\ resolved # Pending
  /\ selector \in DOMAIN refs
  /\ Len(selector) >= MinHashLen /\ oid_valid(selector)

\* The values of the ref map that start with the selector, as hexadecimal
\* digits.
Tips == {hash \in Values(refs) : starts_with(hash, to_ascii_lowercase(selector))}

\* C10: for a selector that is no key of the ref map, has at least seven
\* characters and is valid hexadecimal, resolve_hash returns a value of the ref
\* map that starts with the selector if there is one, and the selector itself
\* only if there is none.
C10_TipPreference ==
  ( /\ resolved # Pending
    /\ selector \notin DOMAIN refs
    /\ Len(selector) >= MinHashLen
    /\ oid_valid(selector) ) =>
      IF Tips # {} THEN resolved.result = "ok" /\ resolved.value \in Tips
      ELSE resolved = Ok(selector)

\* C11: resolve_hash fails, with InvalidSelector carrying the selector, exactly
\* when the selector is no key of the ref map and is shorter than seven
\* characters or no valid hexadecimal object id; in every other case it
\* returns Ok.
C11_InvalidSelector ==
  resolved # Pending =>
    IF /\ selector \notin DOMAIN refs
       /\ (Len(selector) < MinHashLen \/ ~oid_valid(selector))
    THEN resolved = InvalidSelector(selector)
    ELSE resolved.result = "ok"

\* resolve_hash refused a selector of seven characters or more that is no ref
\* of a remote that has refs.
C11_Witness ==
  /\ resolved = InvalidSelector(selector)
  /\ Len(selector) >= MinHashLen
  /\ refs # EmptyMap

-----------------------------------------------------------------------------
(* Parsing of a repository descriptor (src/repository.rs).                 *)

\* The white space str::trim removes, as far as the inputs of the model use
\* it.
Whitespace == " "

\* str::trim
RECURSIVE trim_start(_)
trim_start(s) ==
  IF Len(s) > 0 /\ InStr(CharAt(s, 1), Whitespace) THEN trim_start(From(s, 2)) ELSE s

RECURSIVE trim_end(_)
trim_end(s) ==
  IF Len(s) > 0 /\ InStr(CharAt(s, Len(s)), Whitespace)
  THEN trim_end(SubSeq(s, 1, Len(s) - 1))
  ELSE s

trim(s) == trim_end(trim_start(s))

\* str::find(char): the offset of the first c in s, counted from 0.
find(s, c) ==
  IF InStr(c, s)
  THEN Some((CHOOSE i \in 1..Len(s) :
               /\ CharAt(s, i) = c
               /\ \A j \in 1..(i - 1) : CharAt(s, j) # c) - 1)
  ELSE None

\* str::split_once(char): what is before and what is after the first c.
split_once(s, c) ==
  LET at == find(s, c)
  IN  IF at = None THEN None
      ELSE Some(<<SubSeq(s, 1, at[1]), From(s, at[1] + 2)>>)

is_valid_user(ch) ==
  InStr(ch, Digits) \/ InStr(ch, UpperCase) \/ InStr(ch, LowerCase) \/ ch = "_" \/ ch = "-"

is_valid_repo(ch) == is_valid_user(ch) \/ ch = "."

\* RepositoryMeta::default()
DefaultMeta == "HEAD"

\* A RemoteRepository as from_str builds it; its refs are empty.
Repository(host, user, repo, meta) ==
  [result |-> "ok", host |-> host, user |-> user, repo |-> repo, meta |-> meta]

\* A ParseError: which one, the text its message names, and its labelled span
\* <<offset, length>> in the trimmed input (<<>> when it has none).
ParseError(kind, named, span) ==
  [result |-> kind, named |-> named, span |-> span]

\* The host a lower-case host token stands for, None if it stands for none.
host_of(token) ==
  CASE token \in {"github", "gh"} -> Some("GitHub")
    [] token \in {"gitlab", "gl"} -> Some("GitLab")
    [] token \in {"bitbucket", "bb"} -> Some("BitBucket")
    [] OTHER -> None

\* from_str, from the repository name on: `input` is what follows the user
\* name, at `offset` of the trimmed input `source`.
parse_repo(host, user, input, offset) ==
  LET slash_idx == find(input, "/")
      hash_idx  == find(input, "#")
      split     == split_once(input, "#")
      repo      == IF split = None THEN input ELSE split[1][1]
      rest      == IF split = None THEN None ELSE Some(split[1][2])
      meta      == IF rest = None \/ rest = Some("") THEN DefaultMeta ELSE rest[1]
  IN  IF slash_idx # None /\ hash_idx # None /\ slash_idx[1] < hash_idx[1]
      THEN ParseError("MultipleSlashes", "", <<offset + slash_idx[1], 1>>)
      ELSE IF ~(\A i \in 1..Len(repo) : is_valid_repo(CharAt(repo, i)))
      THEN ParseError("InvalidRepository", repo, <<offset, Len(repo)>>)
      ELSE Repository(host, user, repo, meta)

\* from_str, from the user name on.
parse_user(host, input, offset) ==
  LET split == split_once(input, "/")
  IN  IF split = None THEN ParseError("MissingRepository", "", <<>>)
      ELSE LET user == split[1][1]
               rest == split[1][2]
           IN  IF \A i \in 1..Len(user) : is_valid_user(CharAt(user, i))
               THEN parse_repo(host, user, rest, offset + Len(user) + 1)
               ELSE ParseError("InvalidUser", user, <<offset, Len(user)>>)

\* RemoteRepository::from_str that compares the host token as written.
from_str_case_sensitive(input) ==
  LET source == trim(input)
      split  == split_once(source, ":")
  IN  IF split = None THEN parse_user("GitHub", source, 0)
      ELSE LET host == split[1][1]
               kind == host_of(host)
           IN  IF kind = None
               THEN ParseError("InvalidHost", host, <<0, Len(host)>>)
               ELSE parse_user(kind[1], split[1][2], Len(host) + 1)

\* RemoteRepository::from_str
from_str(input) ==
  LET source == trim(input)
      split  == split_once(source, ":")
  IN  IF split = None THEN parse_user("GitHub", source, 0)
      ELSE LET host == to_ascii_lowercase(split[1][1])
               kind == host_of(host)
           IN  IF kind = None
               THEN ParseError("InvalidHost", host, <<0, Len(host)>>)
               ELSE parse_user(kind[1], split[1][2], Len(host) + 1)

\* RemoteRepository::new
RemoteRepository_new(input, meta) ==
  LET repo == from_str(input)
  IN  IF repo.result # "ok" THEN repo
      ELSE [repo EXCEPT !.meta = IF meta = None THEN repo.meta ELSE meta[1]]

\* The name RemoteRepository::get_source writes a host with.
host_name(host) ==
  CASE host = "GitHub" -> "github"
    [] host = "GitLab" -> "gitlab"
    [] host = "BitBucket" -> "bitbucket"

\* RemoteRepository::get_source that leaves the host out.
get_source_without_host(repo) == repo.user \o "/" \o repo.repo

\* RemoteRepository::get_source
get_source(repo) == host_name(repo.host) \o ":" \o repo.user \o "/" \o repo.repo

\* The value of a character in BASE32_ALPHABET, whatever its case; None for
\* a character that is not of the alphabet.
quintet_of(c) ==
  LET upper == IF InStr(c, LowerCase) THEN CharAt(UpperCase, IndexIn(c, LowerCase)) ELSE c
  IN  IF InStr(upper, BASE32_ALPHABET) THEN Some(IndexIn(upper, BASE32_ALPHABET) - 1)
      ELSE None

\* The five bits of a value of the alphabet, most significant first.
QuintetBits(v) == << (v \div 16) % 2, (v \div 8) % 2, (v \div 4) % 2, (v \div 2) % 2, v % 2 >>

RECURSIVE KeyBits(_)
KeyBits(key) ==
  IF Len(key) = 0 THEN <<>>
  ELSE QuintetBits(quintet_of(CharAt(key, 1))[1]) \o KeyBits(From(key, 2))

\* The bytes of the first 8 * n bits.
RECURSIVE BitsToBytes(_, _)
BitsToBytes(bits, n) ==
  IF n = 0 THEN <<>>
  ELSE << 128 * bits[1] + 64 * bits[2] + 32 * bits[3] + 16 * bits[4]
          + 8 * bits[5] + 4 * bits[6] + 2 * bits[7] + bits[8] >>
       \o BitsToBytes(SubSeq(bits, 9, Len(bits)), n - 1)

\* base32::decode(BASE32_ALPHABET, key): None for a key with a character
\* that is not of the alphabet, else the bytes of the key's bits, cut to
\* Len(key) * 5 / 8 bytes.
base32_decode(key) ==
  IF \E i \in 1..Len(key) : quintet_of(CharAt(key, i)) = None THEN None
  ELSE Some(BitsToBytes(KeyBits(key), (Len(key) * 5) \div 8))

\* The characters ByteOf knows.
Ascii == " #-./:@_" \o Digits \o UpperCase \o LowerCase

\* String::from_utf8 on bytes of the characters ByteOf knows; None stands
\* for its error.
RECURSIVE from_utf8(_)
from_utf8(bytes) ==
  IF bytes = <<>> THEN Some("")
  ELSE LET known == {i \in 1..Len(Ascii) : ByteOf(CharAt(Ascii, i)) = Head(bytes)}
           rest  == from_utf8(Tail(bytes))
       IN  IF known = {} \/ rest = None THEN None
           ELSE Some(CharAt(Ascii, CHOOSE i \in known : TRUE) \o rest[1])

\* What Cache::list makes of one key of the manifest: an error for a key that
\* is not base 32, for bytes that are no string and for a string that does
\* not parse, else the decoded entry and the repository it parses to.
list_entry(key) ==
  LET bytes == base32_decode(key)
      entry == IF bytes = None THEN None ELSE from_utf8(bytes[1])
      repo  == IF entry = None THEN None ELSE Some(from_str(entry[1]))
  IN  IF bytes = None THEN [result |-> "malformed_entry", entry |-> "", repo |-> None]
      ELSE IF entry = None THEN [result |-> "invalid_utf8", entry |-> "", repo |-> None]
      ELSE IF repo[1].result # "ok"
      THEN [result |-> "malformed_entry", entry |-> entry[1], repo |-> None]
      ELSE [result |-> "ok", entry |-> entry[1], repo |-> repo]

\* The loop of Cache::list over the keys of the manifest in the order
\* `order`: what it printed and how it ended.
RECURSIVE list(_, _)
list(templates, order) ==
  IF order = <<>> THEN [result |-> "ok", printed |-> <<>>]
  ELSE LET key   == Head(order)
           entry == list_entry(key)
           rest  == list(templates, Tail(order))
           line  == [entry |-> entry.entry, repo |-> entry.repo[1],
                     items |-> sorted_by_timestamp(templates[key])]
       IN  IF entry.result # "ok" THEN [result |-> "err", printed |-> <<>>]
           ELSE [result |-> rest.result, printed |-> <<line>> \o rest.printed]

\* Cache::list
List(order) ==
  LET done == list(manifest, order)
  IN  /\ order \in Orders(DOMAIN manifest)
      /\ last' = Call("list", "", "", "", "", done.result, None, done.printed)
      /\ UNCHANGED <<manifest, disk, blobs, tarballsDir, clock>>
      /\ UNCHANGED <<resolveVars, parseVars, suiteVars, appVars>>

\* RemoteRepository::from_str on the target.
FromStr ==
  /\ descriptor' = [call |-> "from_str", value |-> from_str(target)]
  /\ UNCHANGED <<target, explicit, cacheVars, resolveVars, suiteVars, appVars>>

\* RemoteRepository::new on the target and an explicit meta.
NewRepository(meta) ==
  /\ explicit' = meta
  /\ descriptor' = [call |-> "new", value |-> RemoteRepository_new(target, meta)]
  /\ UNCHANGED <<target, cacheVars, resolveVars, suiteVars, appVars>>

-----------------------------------------------------------------------------
(* Specification of the parser: a target is parsed.                        *)

\* Targets: every host token before one repository, and three of them before
\* every user and repository name, with and without a selector; one
\* repository with every selector; and targets with white space.
HostParts ==
  { "", "github:", "gh:", "GitHub:", "GH:", "gitlab:", "gl:", "bitbucket:",
    "bb:", "Bb:", "srht:", "SRHT:", ":", "gh :" }

UserParts == {"foo", "github", "", "foo@bar", "f-o_0"}

RepoParts == {"", "/", "/bar", "/b@z", "/b.a-r_1", "/bar/extra"}

MetaParts == {"", "#", "#main", "#feat/some-feature-name", "#a:b", "#4a5a56fd"}

Targets ==
  {h \o "foo/bar" : h \in HostParts}
    \cup {h \o u \o r \o m : h \in {"", "gl:", "srht:"}, u \in UserParts,
                             r \in RepoParts, m \in {"", "#main"}}
    \cup {h \o "foo" \o r \o m : h \in {"", "bb:"}, r \in {"/bar", "/bar/extra", "/"},
                                 m \in MetaParts}
    \cup {" foo/bar ", " gl:foo/bar#main", "foo /bar", "foo-bar", "github/foo",
          "user/repo#a:b", "user/repo/extra", "/repo", "gh:/repo", "foo/bar:baz"}

ExplicitMetas == {None, Some(""), Some("dev")}

NewAnyRepository == \E meta \in ExplicitMetas : NewRepository(meta)

InitParse ==
  /\ manifest = EmptyMap
  /\ disk = EmptyMap
  /\ blobs = EmptyMap
  /\ tarballsDir = FALSE
  /\ clock = 0
  /\ last = Call("init", "", "", "", "", "ok", None, <<>>)
  /\ selector = ""
  /\ refs = EmptyMap
  /\ resolved = Pending
  /\ target \in Targets
  /\ explicit = None
  /\ descriptor = Pending
  /\ NoSuites
  /\ NoRemote

NextParse == FromStr \/ NewAnyRepository

SpecParse == InitParse /\ [][NextParse]_vars

-----------------------------------------------------------------------------
(* Claims about the parser.                                                *)

\* The descriptors agree on whether they are one and, if they are, on host,
\* user and repository.
SameRepository(a, b) ==
  IF a.result = "ok" /\ b.result = "ok"
  THEN a.host = b.host /\ a.user = b.user /\ a.repo = b.repo
  ELSE a = b

\* C12: the text before a `:` is a host token only if that `:` comes before
\* every `/` of the input: an input with no `:`, or whose first `:` comes
\* after its first `/`, parses with host GitHub and without any of the input
\* being taken for the host.
C12_ColonBeforeSlash ==
  descriptor # Pending =>
    LET source == trim(target)
        colon  == find(source, ":")
        slash  == find(source, "/")
    IN  (colon = None \/ (slash # None /\ slash[1] < colon[1])) =>
          SameRepository(descriptor.value, parse_user("GitHub", source, 0))

\* The host tokens: the names of the hosts and their aliases.
Aliases == {"github", "gh", "gitlab", "gl", "bitbucket", "bb"}

\* C13: for an input <token>:<rest> whose token has no `/`, the token in lower
\* case decides: github or gh give GitHub, gitlab or gl GitLab, bitbucket or
\* bb BitBucket, with the user and repository every alias of that host gives
\* for <rest>; any other token gives the invalid-host error that names the
\* token and whose span is the token.
C13_HostAliasing ==
  descriptor # Pending =>
    LET source == trim(target)
        split  == split_once(source, ":")
        token  == split[1][1]
        rest   == split[1][2]
        lower  == to_ascii_lowercase(token)
        value  == descriptor.value
    IN  (split # None /\ find(token, "/") = None) =>
          IF lower \in Aliases
          THEN /\ value.result # "InvalidHost"
               /\ value.result = "ok" =>
                    /\ value.host = (CASE lower \in {"github", "gh"} -> "GitHub"
                                       [] lower \in {"gitlab", "gl"} -> "GitLab"
                                       [] lower \in {"bitbucket", "bb"} -> "BitBucket")
                    /\ \A alias \in Aliases :
                         LET other == from_str(alias \o ":" \o rest)
                         IN  /\ other.result = "ok"
                             /\ other.user = value.user /\ other.repo = value.repo
                             /\ host_of(alias) = host_of(lower) => other.host = value.host
          ELSE value = ParseError("InvalidHost", lower, <<0, Len(token)>>)

\* A target whose host token is an alias not written in lower case was
\* parsed to a repository of BitBucket.
C13_Witness ==
  /\ descriptor # Pending
  /\ descriptor.value.result = "ok"
  /\ descriptor.value.host = "BitBucket"
  /\ starts_with(target, "Bb:")

\* What from_str is left with once it has taken the host token from the
\* trimmed input `source`, and the offset it is at; None if it has failed by
\* then.
AfterHost(source) ==
  LET split == split_once(source, ":")
  IN  IF split = None THEN Some([rest |-> source, offset |-> 0])
      ELSE IF host_of(to_ascii_lowercase(split[1][1])) = None THEN None
      ELSE Some([rest |-> split[1][2], offset |-> Len(split[1][1]) + 1])

\* The same once it has taken the user name as well.
AfterUser(source) ==
  LET left  == AfterHost(source)
      split == split_once(left[1].rest, "/")
      user  == split[1][1]
  IN  IF left = None \/ split = None THEN None
      ELSE IF \E i \in 1..Len(user) : ~is_valid_user(CharAt(user, i)) THEN None
      ELSE Some([rest |-> split[1][2], offset |-> left[1].offset + Len(user) + 1])

\* C14: once the user name is taken, a `/` in what remains that comes before
\* any `#`, also when there is no `#`, gives the multiple-slashes error whose
\* span is that slash; a `/` only after the `#` does not.
C14_MultipleSlashes ==
  descriptor # Pending =>
    LET left == AfterUser(trim(target))
        slash == find(left[1].rest, "/")
        hash  == find(left[1].rest, "#")
    IN  left # None =>
          IF slash # None /\ (hash = None \/ slash[1] < hash[1])
          THEN descriptor.value =
                 ParseError("MultipleSlashes", "", <<left[1].offset + slash[1], 1>>)
          ELSE descriptor.value.result # "MultipleSlashes"

\* C15: an input whose user segment, the text between the host prefix if
\* there is one and the first `/`, is empty fails with the invalid-user error,
\* and no descriptor has an empty user.
C15_UserNotEmpty ==
  descriptor # Pending =>
    LET left  == AfterHost(trim(target))
        split == split_once(left[1].rest, "/")
    IN  /\ (left # None /\ split # None /\ split[1][1] = "")
              => descriptor.value.result = "InvalidUser"
        /\ (descriptor.value.result = "ok") => descriptor.value.user # ""

\* C16: every descriptor from_str or new gives has a selector that is not
\* empty, and it is HEAD when the input has no selector or an empty one and
\* new is given no selector or an empty one.
C16_SelectorDefault ==
  (descriptor # Pending /\ descriptor.value.result = "ok") =>
    LET split  == split_once(trim(target), "#")
        absent == split = None \/ split[1][2] = ""
    IN  /\ descriptor.value.meta # ""
        /\ (descriptor.call = "from_str" /\ absent) => descriptor.value.meta = DefaultMeta
        /\ (descriptor.call = "new" /\ explicit = Some(""))
             => descriptor.value.meta = DefaultMeta
        /\ (descriptor.call = "new" /\ explicit = None /\ absent)
             => descriptor.value.meta = DefaultMeta

-----------------------------------------------------------------------------
(* Specification of the repository identity: a target is parsed, a tarball *)
(* of the repository it names is written to the cache and the cache is     *)
(* listed.                                                                 *)

IdentityTargets ==
  {h \o "foo/bar" : h \in {"", "GitHub:", "gl:", "gitlab:", "bb:", "BITBUCKET:"}}
    \cup {h \o u \o r \o "#main" : h \in {"", "gl:"}, u \in {"github", "", "f-o_0"},
                                  r \in {"/", "/b.a-r_1", "/Bar"}}
    \cup {"bb:foo/bar#feat/some-feature-name", " gh:foo/bar# ", "srht:foo/bar", "foo"}

\* Cache::write of a tarball of the parsed repository.
WriteParsed ==
  /\ clock < MaxParsedWrites
  /\ descriptor # Pending
  /\ descriptor.value.result = "ok"
  /\ Write(get_source(descriptor.value), descriptor.value.meta, "a", "x", "none")

ListAny == \E order \in Orders(DOMAIN manifest) : List(order)

InitIdentity ==
  /\ manifest = EmptyMap
  /\ disk = EmptyMap
  /\ blobs = EmptyMap
  /\ tarballsDir = FALSE
  /\ clock = 0
  /\ last = Call("init", "", "", "", "", "ok", None, <<>>)
  /\ selector = ""
  /\ refs = EmptyMap
  /\ resolved = Pending
  /\ target \in IdentityTargets
  /\ explicit = None
  /\ descriptor = Pending
  /\ NoSuites
  /\ NoRemote

NextIdentity == FromStr \/ NewAnyRepository \/ WriteParsed \/ ListAny

SpecIdentity == InitIdentity /\ [][NextIdentity]_vars

\* C17: the identity of every parsed descriptor, encoded as Cache::write
\* encodes a bucket key and decoded as Cache::list decodes it, is the identity
\* again, and parses to the host, user and repository of the descriptor,
\* whatever the selector of the descriptor.
C17_IdentityRoundTrip ==
  (last.op = "list" /\ manifest # EmptyMap) =>
    /\ last.result = "ok"
    /\ Len(last.printed) = Cardinality(DOMAIN manifest)
    /\ \A i \in 1..Len(last.printed) :
         LET line == last.printed[i]
         IN  /\ line.entry = get_source(descriptor.value)
             /\ base32_encode(line.entry) \in DOMAIN manifest
             /\ SameRepository(line.repo, descriptor.value)

\* The cache listed a repository of GitLab written under one selector while
\* the descriptor has another.
C17_Witness ==
  /\ last.op = "list" /\ last.result = "ok"
  /\ last.printed # <<>>
  /\ descriptor.value.host = "GitLab"
  /\ last.printed[1].items[1].name # descriptor.value.meta

-----------------------------------------------------------------------------
(* Resolution of the requirements of action suites (src/config.rs). The    *)
(* graph the suites are put into is crate::graph, described in section 4.4 *)
(* of the specification.                                                   *)

\* Most suites handed to resolve_requirements.
MaxSuites == 3

\* ActionSuite, its actions left out.
ActionSuite(name, reqs) == [name |-> name, requirements |-> reqs]

\* impl Node for ActionSuite
dependencies(suite) == suite.requirements

matches(suite, dependency) == suite.name = dependency

\* Step::Resolved and Step::Unresolved
StepResolved(suite) == [step |-> "Resolved", suite |-> suite]

StepUnresolved(dep) == [step |-> "Unresolved", dep |-> dep]

\* DependenciesGraph::from: the suites not yet resolved in their declaration
\* order, the place in them the current pass has come to, the suites
\* resolved and the requirements reported as unresolved.
graph_from(nodes) == [remaining |-> nodes, at |-> 1, resolved |-> <<>>, reported |-> <<>>]

\* Whether every requirement of the suite matches a suite already resolved.
satisfied(graph, suite) ==
  \A i \in 1..Len(dependencies(suite)) :
    \E j \in 1..Len(graph.resolved) : matches(graph.resolved[j], dependencies(suite)[i])

\* A sequence without its i-th element.
RemoveAt(seq, i) == SubSeq(seq, 1, i - 1) \o SubSeq(seq, i + 1, Len(seq))

\* The elements of a sequence in the order of their first occurrence.
RECURSIVE Dedup(_)
Dedup(seq) ==
  IF seq = <<>> THEN <<>>
  ELSE <<Head(seq)>> \o Dedup(SelectSeq(Tail(seq), LAMBDA x : x # Head(seq)))

\* The requirements of the suites that no resolved suite matches, in the
\* order of the suites and of their requirements.
RECURSIVE unsatisfied(_, _)
unsatisfied(graph, nodes) ==
  IF nodes = <<>> THEN <<>>
  ELSE SelectSeq(dependencies(Head(nodes)),
                 LAMBDA dep : ~\E j \in 1..Len(graph.resolved) : matches(graph.resolved[j], dep))
         \o unsatisfied(graph, Tail(nodes))

\* DependenciesGraph::next: the step it yields (None at the end) and the
\* graph it leaves. A pass goes over the remaining suites in declaration
\* order and yields each whose requirements are all resolved; passes repeat
\* until one yields nothing; then every requirement left unsatisfied is
\* yielded once as unresolved.
graph_next(graph) ==
  LET ready == {i \in 1..Len(graph.remaining) : satisfied(graph, graph.remaining[i])}
      ahead == {i \in ready : i >= graph.at}
      pick  == IF ahead # {} THEN CHOOSE i \in ahead : \A j \in ahead : i <= j
               ELSE CHOOSE i \in ready : \A j \in ready : i <= j
      left  == SelectSeq(Dedup(unsatisfied(graph, graph.remaining)),
                         LAMBDA dep : ~\E k \in 1..Len(graph.reported) : graph.reported[k] = dep)
  IN  IF ready # {}
      THEN [step  |-> Some(StepResolved(graph.remaining[pick])),
            graph |-> [graph EXCEPT !.remaining = RemoveAt(graph.remaining, pick),
                                    !.at = pick,
                                    !.resolved = Append(graph.resolved, graph.remaining[pick])]]
      ELSE IF left # <<>>
      THEN [step  |-> Some(StepUnresolved(Head(left))),
            graph |-> [graph EXCEPT !.reported = Append(graph.reported, Head(left))]]
      ELSE [step |-> None, graph |-> graph]

\* The closure of resolve_requirements that puts resolved suites in front.
fold_step_push_front(acc, next) ==
  IF next.step = "Resolved"
  THEN [acc EXCEPT !.resolved = <<next.suite>> \o acc.resolved]
  ELSE [acc EXCEPT !.unresolved = Append(acc.unresolved, next.dep)]

\* The closure of resolve_requirements that forgets unresolved requirements.
fold_step_resolved_only(acc, next) ==
  IF next.step = "Resolved"
  THEN [acc EXCEPT !.resolved = Append(acc.resolved, next.suite)]
  ELSE acc

\* The closure resolve_requirements folds the steps of the graph with.
fold_step(acc, next) ==
  IF next.step = "Resolved"
  THEN [acc EXCEPT !.resolved = Append(acc.resolved, next.suite)]
  ELSE [acc EXCEPT !.unresolved = Append(acc.unresolved, next.dep)]

\* resolve_requirements is called: the graph is built from the suites, the
\* fold starts from two empty vectors.
ResolveRequirements ==
  /\ requirements = Pending
  /\ requirements' = [result |-> "running", graph |-> graph_from(suites),
                      resolved |-> <<>>, unresolved |-> <<>>]
  /\ UNCHANGED <<suites, cacheVars, resolveVars, parseVars, appVars>>

\* One turn of the fold: the next step of the graph goes through the closure;
\* when the graph has no more steps resolve_requirements returns.
FoldStep ==
  /\ requirements.result = "running"
  /\ \E next \in {graph_next(requirements.graph)} :
       LET acc  == [resolved |-> requirements.resolved, unresolved |-> requirements.unresolved]
           into == fold_step(acc, next.step[1])
       IN  requirements' =
             IF next.step = None THEN [requirements EXCEPT !.result = "done"]
             ELSE [requirements EXCEPT !.graph = next.graph,
                                       !.resolved = into.resolved,
                                       !.unresolved = into.unresolved]
  /\ UNCHANGED <<suites, cacheVars, resolveVars, parseVars, appVars>>

SuiteNames == {"A", "B", "C"}

\* The requirements of a suite: names of suites and a name of none.
RequirementLists ==
  { <<>>, <<"A">>, <<"B">>, <<"C">>, <<"Z">>, <<"A", "Z">>, <<"B", "C">>, <<"A", "B">> }

Suites == {ActionSuite(name, reqs) : name \in SuiteNames, reqs \in RequirementLists}

\* The lists of at most MaxSuites suites.
SuiteLists == UNION {[1..n -> Suites] : n \in 0..MaxSuites}

\* The suites a configuration declares, before resolve_requirements is called
\* with them.
InitSuites ==
  /\ manifest = EmptyMap
  /\ disk = EmptyMap
  /\ blobs = EmptyMap
  /\ tarballsDir = FALSE
  /\ clock = 0
  /\ last = Call("init", "", "", "", "", "ok", None, <<>>)
  /\ selector = ""
  /\ refs = EmptyMap
  /\ resolved = Pending
  /\ NoDescriptor
  /\ suites \in SuiteLists
  /\ requirements = Pending
  /\ NoRemote

NextSuites == ResolveRequirements \/ FoldStep

SpecSuites == InitSuites /\ [][NextSuites]_vars

\* resolve_requirements is a loop of one thread: once called it runs on until
\* it returns.
SpecSuitesFair == SpecSuites /\ WF_vars(FoldStep)

\* The elements of a sequence.
Range(seq) == {seq[i] : i \in 1..Len(seq)}

\* C18: in the resolved sequence of resolve_requirements every suite comes
\* after a suite named by each of its requirements, so a suite with a
\* requirement that names no suite of the input is not in it; for A without
\* requirements, B requiring A and C requiring Z, which names no suite, the
\* result is resolved = [A, B] and unresolved = [Z].
C18_SuiteOrdering ==
  requirements # Pending =>
    /\ \A i \in 1..Len(requirements.resolved) :
         \A dep \in Range(dependencies(requirements.resolved[i])) :
           \E j \in 1..(i - 1) : matches(requirements.resolved[j], dep)
    /\ \A suite \in Range(requirements.resolved) :
         \A dep \in Range(dependencies(suite)) : \E other \in Range(suites) : matches(other, dep)
    /\ ( /\ requirements.result = "done"
         /\ suites = << ActionSuite("A", <<>>), ActionSuite("B", <<"A">>),
                        ActionSuite("C", <<"Z">>) >> ) =>
           /\ requirements.resolved = <<ActionSuite("A", <<>>), ActionSuite("B", <<"A">>)>>
           /\ requirements.unresolved = <<"Z">>

\* resolve_requirements returned for suites declared in the order C, B, A, of
\* which B requires A and C requires a name of no suite.
C18_Witness ==
  /\ requirements # Pending
  /\ requirements.result = "done"
  /\ suites = << ActionSuite("C", <<"Z">>), ActionSuite("B", <<"A">>),
                 ActionSuite("A", <<>>) >>
  /\ requirements.resolved = <<ActionSuite("A", <<>>), ActionSuite("B", <<"A">>)>>

\* resolve_requirements has returned.
Returned == requirements # Pending /\ requirements.result = "done"

\* C19: resolve_requirements returns for every input, also one with cyclic
\* requirements, and when it has, every suite of the input is in resolved or
\* has a requirement in unresolved; for A requiring B and B requiring A no
\* suite is in resolved and A and B are both in unresolved.
C19_CyclesTerminate ==
  /\ (requirements # Pending) ~> Returned
  /\ [](Returned =>
          /\ \A suite \in Range(suites) :
               \/ suite \in Range(requirements.resolved)
               \/ \E dep \in Range(dependencies(suite)) : dep \in Range(requirements.unresolved)
          /\ suites = <<ActionSuite("A", <<"B">>), ActionSuite("B", <<"A">>)>> =>
               /\ requirements.resolved = <<>>
               /\ {"A", "B"} \subseteq Range(requirements.unresolved))

\* resolve_requirements returned for three suites that require each other in
\* a cycle.
C19_Witness ==
  /\ Returned
  /\ suites = << ActionSuite("A", <<"B">>), ActionSuite("B", <<"C">>),
                 ActionSuite("C", <<"A">>) >>
  /\ requirements.resolved = <<>>

-----------------------------------------------------------------------------
(* The order of the file-system calls of Cache::write.                     *)

\* The step is a call of Cache::write, failed or not.
WriteStep == clock' = clock + 1 /\ last'.op = "write"

\* C20: Cache::write writes the blob before it persists the manifest, so
\* whichever of its file-system calls fails, every item the call adds to the
\* manifest on disk has its blob file written.
C20_BlobBeforeManifest ==
  [][WriteStep =>
       \A x \in ItemsOf(disk') \ ItemsOf(disk) : x.item.hash \in DOMAIN blobs']_vars

-----------------------------------------------------------------------------
(* The order of the file-system calls of Cache::remove_all.                *)

\* The step is a call of Cache::remove_all, failed or not.
RemoveAllStep == last'.op = "remove_all"

\* The step deleted the tarballs directory.
DirectoryDeleted == tarballsDir /\ ~tarballsDir'

\* C21 as stated: Cache::remove_all deletes the tarballs directory before it
\* touches the manifest; when the delete fails, also for want of the
\* directory, the call returns an error and the manifest is unchanged in
\* memory and on disk; when the delete succeeds the manifest on disk has no
\* buckets, so that no item on disk is left with a blob the call deleted.
C21_RemoveAllOrdering ==
  [][RemoveAllStep =>
       /\ ~DirectoryDeleted =>
            /\ last'.result = "err"
            /\ manifest' = manifest /\ disk' = disk /\ blobs' = blobs
       /\ DirectoryDeleted => DOMAIN disk' = {}
       /\ \A x \in ItemsOf(disk') : x.item.hash \notin DOMAIN blobs \ DOMAIN blobs']_vars

\* C21 as amended: when the delete fails the call returns an error and the
\* manifest is unchanged in memory and on disk; when the delete succeeds no
\* blob is left and the manifest in memory has no buckets, and the manifest
\* on disk has no buckets if the call returns Ok and is unchanged if
\* Manifest::write fails.
C21_RemoveAllOrderingAmended ==
  [][RemoveAllStep =>
       /\ ~DirectoryDeleted =>
            /\ last'.result = "err"
            /\ manifest' = manifest /\ disk' = disk /\ blobs' = blobs
       /\ DirectoryDeleted =>
            /\ DOMAIN blobs' = {} /\ DOMAIN manifest' = {}
            /\ last'.result = "ok" => DOMAIN disk' = {}
            /\ last'.result = "err" => disk' = disk]_vars

\* Cache::remove_all has deleted the blobs and failed to persist the cleared
\* manifest: the manifest on disk still holds items.
C21_Witness ==
  /\ last.op = "remove_all" /\ last.result = "err"
  /\ ~tarballsDir /\ DOMAIN blobs = {}
  /\ DOMAIN manifest = {}
  /\ DOMAIN disk # {}

-----------------------------------------------------------------------------
(* The remote scaffolding flow (App::remote, src/app.rs): the repository   *)
(* is parsed, the destination is looked at, the tarball is fetched and     *)
(* unpacked, the manifest of the template is loaded.                       *)

\* let remote = RemoteRepository::new(src, meta)?
RemoteNew ==
  /\ app.pc = "start"
  /\ descriptor' = [call |-> "new", value |-> RemoteRepository_new(target, explicit)]
  /\ app' = [app EXCEPT !.pc = IF RemoteRepository_new(target, explicit).result = "ok"
                                THEN "parsed" ELSE "failed"]
  /\ UNCHANGED <<target, explicit, cacheVars, resolveVars, suiteVars>>

\* destination.try_exists(): the flow bails out when the destination exists.
RemoteDestination(exists) ==
  /\ app.pc = "parsed"
  /\ app' = [app EXCEPT !.pc = IF exists THEN "failed" ELSE "checked"]
  /\ UNCHANGED <<cacheVars, resolveVars, parseVars, suiteVars>>

\* let tarball = remote.fetch().await?; `response` is None when the request
\* fails, else the bytes of the body.
RemoteFetch(response) ==
  /\ app.pc = "checked"
  /\ app' = IF response = None THEN [app EXCEPT !.pc = "failed"]
            ELSE [app EXCEPT !.pc = "fetched", !.tarball = response]
  /\ UNCHANGED <<cacheVars, resolveVars, parseVars, suiteVars>>

\* Unpacker::new(tarball).unpack_to(&destination)?
RemoteUnpack(ok) ==
  /\ app.pc = "fetched"
  /\ app' = [app EXCEPT !.pc = IF ok THEN "unpacked" ELSE "failed",
                        !.unpacked = app.tarball]
  /\ UNCHANGED <<cacheVars, resolveVars, parseVars, suiteVars>>

\* manifest.load()?
RemoteLoad(ok) ==
  /\ app.pc = "unpacked"
  /\ app' = [app EXCEPT !.pc = IF ok THEN "done" ELSE "failed"]
  /\ UNCHANGED <<cacheVars, resolveVars, parseVars, suiteVars>>

\* The src arguments of the remote command.
RemoteTargets == {"u/r", "gh:u/r#main", "gitlab:u/r", "gl:u/r#ab", "srht:u/r", "u"}

\* The refs of the remote repositories: each has the branch main, of which
\* HEAD is the tip.
RemoteRefs == {MapInsert(MapInsert(EmptyMap, "HEAD", hash), "main", hash) : hash \in Hashes}

\* The cache directory before the command runs: absent, or as a successful
\* Cache::write of an earlier run left it.
InitCache ==
  \/ /\ manifest = EmptyMap
     /\ disk = EmptyMap
     /\ blobs = EmptyMap
     /\ tarballsDir = FALSE
     /\ clock = 0
     /\ last = Call("init", "", "", "", "", "ok", None, <<>>)
  \/ \E source \in Identities, name \in OneName, hash \in Hashes, contents \in Contents :
       /\ manifest = normalize(upsert(EmptyMap, encode(source), name, hash, 0))
       /\ disk = manifest
       /\ blobs = MapInsert(EmptyMap, hash, contents)
       /\ tarballsDir = TRUE
       /\ clock = 1
       /\ last = Call("write", source, name, hash, contents, "ok", None, <<>>)

InitRemote ==
  /\ InitCache
  /\ selector = ""
  /\ refs \in RemoteRefs
  /\ resolved = Pending
  /\ target \in RemoteTargets
  /\ explicit \in ExplicitMetas
  /\ descriptor = Pending
  /\ NoSuites
  /\ app = [pc |-> "start", tarball |-> None, unpacked |-> None]

RemoteDestinationAny == \E exists \in BOOLEAN : RemoteDestination(exists)

RemoteFetchAny ==
  \E response \in {None} \cup {Some(bytes) : bytes \in Contents} : RemoteFetch(response)

RemoteUnpackAny == \E ok \in BOOLEAN : RemoteUnpack(ok)

RemoteLoadAny == \E ok \in BOOLEAN : RemoteLoad(ok)

NextRemote ==
  RemoteNew \/ RemoteDestinationAny \/ RemoteFetchAny \/ RemoteUnpackAny \/ RemoteLoadAny

SpecRemote == InitRemote /\ [][NextRemote]_vars

\* The hash the selector of the parsed repository resolves to with the refs
\* of the remote.
RemoteHash == resolve_hash(descriptor.value.meta, refs)

\* What the cache holds for the parsed repository and its resolved hash.
CachedTarball == read(manifest, blobs, get_source(descriptor.value), RemoteHash.value)

\* The step is the call of RemoteRepository::fetch.
FetchStep == app.pc = "checked" /\ app'.pc # "checked"

\* The step hands the tarball to the unpacker.
UnpackStep == app.pc = "fetched" /\ app'.pc # "fetched"

\* C22: in the remote flow the cache is read by the identity of the
\* repository and the resolved hash before any fetch, a fetch is made only
\* when that read misses, and the bytes handed to the unpacker are in the
\* cache under that hash by then.
C22_CacheFirst ==
  [][/\ FetchStep =>
          /\ last.op = "read"
          /\ (RemoteHash.result = "ok" => CachedTarball.value = None)
     /\ UnpackStep =>
          (RemoteHash.result = "ok" =>
             CachedTarball = [result |-> "ok", value |-> app.tarball])]_vars

-----------------------------------------------------------------------------
(* The manifest and the blob store together.                               *)

\* C23: after any sequence of successful Cache::write, Cache::remove and
\* Cache::remove_all calls in which no call of the file system fails, the
\* blob file of every item of the manifest exists and Cache::read returns no
\* I/O error, also when two identities hold items of one hash and one of them
\* is removed by its identity.
C23_BlobsOfItemsExist ==
  /\ \A x \in ItemsOf(manifest) : x.item.hash \in DOMAIN blobs
  /\ \A source \in Identities, hash \in Hashes :
       read(manifest, blobs, source, hash).result = "ok"

\* C24: right after a successful Cache::write(identity, name, h, bytes),
\* Cache::read(identity, h) returns Some(bytes), also when the bucket held an
\* item whose hash is a proper prefix or an extension of h and whose blob
\* has other contents.
C24_ReadYourWrites ==
  [][(WriteStep /\ last'.result = "ok") =>
       read(manifest', blobs', last'.source, last'.hash)
         = [result |-> "ok", value |-> Some(last'.contents)]]_vars

====
